---- MODULE Spec2Model ----
(***************************************************************************)
(* FirestoreRepo<T>: the generic repository of af-firestore-repo-factory.  *)
(* The repository holds no data of its own: its state is the content of    *)
(* the Firestore collections it is bound to.  Every public method is one   *)
(* action; the query translation (applyOptions and its three helpers) is   *)
(* a set of operators that build the chain of query-builder calls, which   *)
(* the document-database client then runs against the collection.          *)
(*                                                                         *)
(* JavaScript objects (entities, fetch options) are functions whose DOMAIN *)
(* is the set of properties that are present: a property that is not in    *)
(* the DOMAIN is undefined.                                                *)
(***************************************************************************)
EXTENDS Integers, Sequences, FiniteSets, TLC

VARIABLES store, nextAuto, lastWrite, nOps, request, last, repos, sub

vars == <<store, nextAuto, lastWrite, nOps, request, last, repos, sub>>

(***************************************************************************)
(* Bounds of the model.                                                    *)
(***************************************************************************)
\* write operations (add, update, delete) in one behaviour
MaxOps == 2
\* filter specifications in one options.filters array
MaxFilters == 2
\* sort specifications in one options.sorts array
MaxSorts == 2
\* repositories made by the factory in one behaviour
MaxRepos == 2

(***************************************************************************)
(* Values.                                                                 *)
(***************************************************************************)
\* an argument that the caller left out
Undefined == "<undefined>"

\* the empty function: the object {} and the empty collection
Empty == [x \in {} |-> 0]

\* the collection paths repositories are created for
Paths == {"todos", "notes"}

\* identifiers chosen by the caller
ExplicitIds == {"a"}

\* identifiers the client generates, in the order it hands them out; they
\* are random 20-character strings, so two of them never coincide and a
\* caller knows one only after add has returned it
AutoIdPool == <<"g1", "g2", "g3", "g4">>

AutoIds == {AutoIdPool[i] : i \in 1..Len(AutoIdPool)}

DocIds == ExplicitIds \cup AutoIds

\* the identifiers generated so far
Generated(n) == {AutoIdPool[i] : i \in 1..n}

\* document identifiers in the order the store lists them (string order)
IdOrder == <<"a", "b", "c", "d", "g1", "g2", "g3", "g4">>

IdRank(id) == CHOOSE i \in 1..Len(IdOrder) : IdOrder[i] = id

\* the values of the fields name and timeStamp, by their rank
FieldValues == {1, 2}

\* JavaScript's !id for an optional string argument
Falsy(id) == id = Undefined \/ id = ""

\* { ...a, ...b }: the properties of a, overridden and extended by those of b
Merge(a, b) ==
  [f \in DOMAIN a \cup DOMAIN b |-> IF f \in DOMAIN b THEN b[f] ELSE a[f]]

\* { ...item, id: id }
WithId(item, id) == Merge(item, [x \in {"id"} |-> id])

\* item.id, undefined when the property is missing
IdOf(item) == IF "id" \in DOMAIN item THEN item["id"] ELSE Undefined

(***************************************************************************)
(* The document-database client, one collection at a time.  A collection   *)
(* is a function from the identifiers of its documents to their data.      *)
(***************************************************************************)
\* collection.doc(id): a reference needs a non-empty string
ValidDocId(id) == id # Undefined /\ id # ""

\* collection.add(item): a new document under a generated identifier
ClientAdd(coll, item, fresh) ==
  [i \in DOMAIN coll \cup {fresh} |-> IF i = fresh THEN item ELSE coll[i]]

\* docRef.set(item): creates the document or replaces all of its data
ClientSet(coll, id, item) ==
  [i \in DOMAIN coll \cup {id} |-> IF i = id THEN item ELSE coll[i]]

\* docRef.delete(): succeeds whether or not the document exists
ClientDelete(coll, id) == [i \in DOMAIN coll \ {id} |-> coll[i]]

\* docRef.update(item): merges the fields into an existing document
ClientUpdate(coll, id, item) == [coll EXCEPT ![id] = Merge(coll[id], item)]

\* (await docRef.get()).exists
ClientExists(coll, id) == id \in DOMAIN coll

(***************************************************************************)
(* The outcome of one repository call: the collection afterwards, whether  *)
(* the promise resolved, the value it resolved to, the document the call   *)
(* addressed and the client calls it made.                                 *)
(***************************************************************************)
Outcome(coll, ok, error, docId, entity, found, calls) ==
  [coll |-> coll, ok |-> ok, error |-> error, docId |-> docId,
   entity |-> entity, found |-> found, calls |-> calls]

\* add(item, id) returns the caller's object, without the identifier merged in
addReturnsInput(coll, item, id, fresh) ==
  IF Falsy(id)
  THEN Outcome(ClientAdd(coll, item, fresh), TRUE, "none", fresh,
               item, FALSE, <<"collection.add">>)
  ELSE Outcome(ClientSet(coll, id, item), TRUE, "none", id,
               item, FALSE, <<"doc.set">>)

\* add(item, id) with the explicit identifier written as a merge
addMergesExplicit(coll, item, id, fresh) ==
  IF Falsy(id)
  THEN Outcome(ClientAdd(coll, item, fresh), TRUE, "none", fresh,
               WithId(item, fresh), FALSE, <<"collection.add">>)
  ELSE Outcome(IF id \in DOMAIN coll THEN ClientUpdate(coll, id, item)
                                     ELSE ClientSet(coll, id, item),
               TRUE, "none", id, WithId(item, id), FALSE, <<"doc.set">>)

\* FirestoreRepo.add
add(coll, item, id, fresh) ==
  IF Falsy(id)
  THEN Outcome(ClientAdd(coll, item, fresh), TRUE, "none", fresh,
               WithId(item, fresh), FALSE, <<"collection.add">>)
  ELSE Outcome(ClientSet(coll, id, item), TRUE, "none", id,
               WithId(item, id), FALSE, <<"doc.set">>)

\* delete(id) that leaves the document in place
deleteKeeps(coll, id) ==
  IF ValidDocId(id)
  THEN Outcome(coll, TRUE, "none", id, Empty, FALSE, <<"doc.delete">>)
  ELSE Outcome(coll, FALSE, "invalid-argument", id, Empty, FALSE, <<>>)

\* FirestoreRepo.delete
delete(coll, id) ==
  IF ValidDocId(id)
  THEN Outcome(ClientDelete(coll, id), TRUE, "none", id, Empty, FALSE,
               <<"doc.delete">>)
  ELSE Outcome(coll, FALSE, "invalid-argument", id, Empty, FALSE, <<>>)

\* exists(id) that answers for the collection instead of the document
existsAnyDocument(coll, id) ==
  IF ValidDocId(id)
  THEN Outcome(coll, TRUE, "none", id, Empty, DOMAIN coll # {},
               <<"doc.get">>)
  ELSE Outcome(coll, FALSE, "invalid-argument", id, Empty, FALSE, <<>>)

\* FirestoreRepo.exists
exists(coll, id) ==
  IF ValidDocId(id)
  THEN Outcome(coll, TRUE, "none", id, Empty, ClientExists(coll, id),
               <<"doc.get">>)
  ELSE Outcome(coll, FALSE, "invalid-argument", id, Empty, FALSE, <<>>)

\* update(item) written as a replacing set
updateReplaces(coll, item) ==
  IF ~ValidDocId(IdOf(item))
  THEN Outcome(coll, FALSE, "invalid-argument", IdOf(item), Empty, FALSE, <<>>)
  ELSE IF ~ClientExists(coll, IdOf(item))
  THEN Outcome(coll, FALSE, "not-found", IdOf(item), Empty, FALSE,
               <<"doc.update">>)
  ELSE Outcome(ClientSet(coll, IdOf(item), item), TRUE, "none", IdOf(item),
               Empty, FALSE, <<"doc.update">>)

\* update(item) written as an upsert: set(item, {merge: true})
updateUpserts(coll, item) ==
  IF ~ValidDocId(IdOf(item))
  THEN Outcome(coll, FALSE, "invalid-argument", IdOf(item), Empty, FALSE, <<>>)
  ELSE IF ~ClientExists(coll, IdOf(item))
  THEN Outcome(ClientSet(coll, IdOf(item), item), TRUE, "none", IdOf(item),
               Empty, FALSE, <<"doc.set">>)
  ELSE Outcome(ClientUpdate(coll, IdOf(item), item), TRUE, "none", IdOf(item),
               Empty, FALSE, <<"doc.set">>)

\* FirestoreRepo.update.  For an item without id the client either rejects
\* doc(undefined) or, in later versions, hands out a reference to a new
\* identifier, where update fails as for any missing document: the call
\* fails and writes nothing in both.
update(coll, item) ==
  IF ~ValidDocId(IdOf(item))
  THEN Outcome(coll, FALSE, "invalid-argument", IdOf(item), Empty, FALSE, <<>>)
  ELSE IF ~ClientExists(coll, IdOf(item))
  THEN Outcome(coll, FALSE, "not-found", IdOf(item), Empty, FALSE,
               <<"doc.update">>)
  ELSE Outcome(ClientUpdate(coll, IdOf(item), item), TRUE, "none", IdOf(item),
               Empty, FALSE, <<"doc.update">>)

\* get(id) without the idField option: the data of the document as stored
getWithoutIdField(coll, id, absent) ==
  IF ~ValidDocId(id)
  THEN Outcome(coll, FALSE, "invalid-argument", id, Empty, FALSE, <<>>)
  ELSE Outcome(coll, TRUE, "none", id,
               IF ClientExists(coll, id) THEN coll[id] ELSE absent,
               FALSE, <<"doc.valueChanges">>)

\* FirestoreRepo.get: what doc(id).valueChanges({ idField: 'id' }) emits
\* for the document as it is; absent is what the client emits when there
\* is no document at id
get(coll, id, absent) ==
  IF ~ValidDocId(id)
  THEN Outcome(coll, FALSE, "invalid-argument", id, Empty, FALSE, <<>>)
  ELSE Outcome(coll, TRUE, "none", id,
               IF ClientExists(coll, id) THEN WithId(coll[id], id) ELSE absent,
               FALSE, <<"doc.valueChanges">>)

\* what the client emits for a missing document: undefined, or in versions
\* that spread the missing data, an object with the id alone
AbsentEmissions(id) == {Empty, WithId(Empty, id)}

\* the errors the client rejects a call with
Faults == {"permission-denied", "unavailable"}

\* an await that makes the client call a second time when the first fails
AwaitRetries(out, coll, fault) ==
  IF fault = "none" \/ out.calls = <<>>
  THEN out
  ELSE [out EXCEPT !.calls = out.calls \o out.calls]

\* the client's promise, awaited (add, exists) or returned as it is
\* (delete, update), never inside a try: when the client rejects the call
\* the method ends there, rejected with the client's error, and nothing is
\* written
Await(out, coll, fault) ==
  IF fault = "none" \/ out.calls = <<>>
  THEN out
  ELSE Outcome(coll, FALSE, fault, out.docId, Empty, FALSE, out.calls)

\* a factory that hands out one repository and binds it to the last path
createRebinds(rs, path) == [r \in 1..Len(rs) + 1 |-> path]

\* FirestoreRepoFactory.create: a new repository for the path; the
\* repositories made so far, each with its collection path
create(rs, path) == Append(rs, path)


(***************************************************************************)
(* Queries.  A query is the chain of builder calls made on the collection  *)
(* reference: where, orderBy, startAt, startAfter, endAt, endBefore and    *)
(* limit.  Null is the value null, Ref the collection reference itself.    *)
(* A method called on null throws a TypeError, which ends the translation: *)
(* threw marks its outcome.                                                *)
(***************************************************************************)
\* the comparison operators of FilterSpecification.operator; the array
\* operators (array-contains, array-contains-any, in, not-in) take or test
\* array values, which the entities of this model do not have
FilterOperators == {"<", "<=", "==", ">", ">=", "!="}

QueryFields == {"name", "timeStamp"}

Directions == {"asc", "desc"}

Null == [isNull |-> TRUE, threw |-> FALSE, calls |-> <<>>]

Ref == [isNull |-> FALSE, threw |-> FALSE, calls |-> <<>>]

BuilderCall(method, fieldName, arg, value) ==
  [method |-> method, fieldName |-> fieldName, arg |-> arg, value |-> value]

\* query || ref
OrRef(query, ref) == IF query.isNull THEN ref ELSE query

\* query.method(...): a new query with the call chained on
Invoke(query, call) ==
  IF query.isNull \/ query.threw
  THEN [isNull |-> FALSE, threw |-> TRUE, calls |-> query.calls]
  ELSE [query EXCEPT !.calls = Append(@, call)]

\* an optional property of the options object
Has(options, key) == key \in DOMAIN options

\* options.filters && options.filters.length, and the same for sorts
NonEmptyArray(options, key) == Has(options, key) /\ Len(options[key]) > 0

\* the for loop of applyFilters, from filter i on
RECURSIVE whereLoop(_, _, _, _)
whereLoop(filters, i, query, ref) ==
  IF i > Len(filters) THEN query
  ELSE whereLoop(filters, i + 1,
                 Invoke(OrRef(query, ref),
                        BuilderCall("where", filters[i].fieldName,
                                    filters[i].operator, filters[i].value)),
                 ref)

\* applyFilters that registers only the first filter of the array
applyFiltersFirstOnly(options, query, ref) ==
  IF NonEmptyArray(options, "filters")
  THEN whereLoop(<<options["filters"][1]>>, 1, query, ref)
  ELSE query

\* FirestoreRepo.applyFilters
applyFilters(options, query, ref) ==
  IF NonEmptyArray(options, "filters")
  THEN whereLoop(options["filters"], 1, query, ref)
  ELSE query

\* applyLimit that builds the limit on the collection reference
applyLimitOnRef(options, query, ref) ==
  IF Has(options, "limit") /\ options["limit"] # 0
  THEN Invoke(ref, BuilderCall("limit", "", "", options["limit"]))
  ELSE query

\* FirestoreRepo.applyLimit
applyLimit(options, query, ref) ==
  IF Has(options, "limit") /\ options["limit"] # 0
  THEN Invoke(OrRef(query, ref), BuilderCall("limit", "", "", options["limit"]))
  ELSE query

\* the for loop of applySorts, from sort i on
RECURSIVE orderByLoop(_, _, _, _)
orderByLoop(sorts, i, query, ref) ==
  IF i > Len(sorts) THEN query
  ELSE orderByLoop(sorts, i + 1,
                   Invoke(OrRef(query, ref),
                          BuilderCall("orderBy", sorts[i].fieldName,
                                      sorts[i].direction, 0)),
                   ref)

\* a cursor statement that always calls the inclusive method
cursorInclusive(options, key, query) ==
  IF Has(options, key)
  THEN Invoke(query,
              BuilderCall(IF key \in {"startAt", "startAfter"} THEN "startAt" ELSE "endAt",
                          "", "", options[key]))
  ELSE query

\* if (typeof options[key] !== 'undefined') query = query[key](options[key])
cursor(options, key, query) ==
  IF Has(options, key)
  THEN Invoke(query, BuilderCall(key, "", "", options[key]))
  ELSE query

\* the cursor statements with the end cursors before the start cursors
cursorsEndFirst(options, query) ==
  cursor(options, "startAfter",
    cursor(options, "startAt",
      cursor(options, "endBefore",
        cursor(options, "endAt", query))))

\* the four cursor statements of applySorts, in their order
cursors(options, query) ==
  cursor(options, "endBefore",
    cursor(options, "endAt",
      cursor(options, "startAfter",
        cursor(options, "startAt", query))))

\* the sorts array back to front
Reversed(s) == [i \in 1..Len(s) |-> s[Len(s) + 1 - i]]

\* applySorts with the cursors attached outside the test for sorts
applySortsCursorsAlways(options, query, ref) ==
  cursors(options,
          IF NonEmptyArray(options, "sorts")
          THEN orderByLoop(options["sorts"], 1, query, ref)
          ELSE query)

\* applySorts that walks the sorts array from its end
applySortsReversed(options, query, ref) ==
  IF NonEmptyArray(options, "sorts")
  THEN cursors(options, orderByLoop(Reversed(options["sorts"]), 1, query, ref))
  ELSE query

\* FirestoreRepo.applySorts
applySorts(options, query, ref) ==
  IF NonEmptyArray(options, "sorts")
  THEN cursors(options, orderByLoop(options["sorts"], 1, query, ref))
  ELSE query

\* applyOptions that starts from the collection reference instead of null
applyOptionsFromRef(options, ref) ==
  applyLimit(options, applySorts(options, applyFilters(options, ref, ref), ref), ref)

\* FirestoreRepo.applyOptions
applyOptions(options, ref) ==
  applyLimit(options, applySorts(options, applyFilters(options, Null, ref), ref), ref)

(***************************************************************************)
(* The client's query engine: what running a chain of builder calls        *)
(* against a collection returns.                                           *)
(***************************************************************************)
CursorMethods == {"startAt", "startAfter", "endAt", "endBefore"}

\* the calls of a chain made with one of the methods, in their order
CallsOf(calls, methods) == SelectSeq(calls, LAMBDA c : c.method \in methods)

\* where(fieldName, operator, value) on one document: a document without
\* the field matches no comparison
Satisfies(doc, w) ==
  /\ w.fieldName \in DOMAIN doc
  /\ CASE w.arg = "<"  -> doc[w.fieldName] < w.value
       [] w.arg = "<=" -> doc[w.fieldName] <= w.value
       [] w.arg = "==" -> doc[w.fieldName] = w.value
       [] w.arg = ">"  -> doc[w.fieldName] > w.value
       [] w.arg = ">=" -> doc[w.fieldName] >= w.value
       [] w.arg = "!=" -> doc[w.fieldName] # w.value
       [] OTHER -> FALSE

\* the builder rejects a cursor with more values than orderBy clauses, an
\* orderBy after a cursor, and a limit that is not positive
InvalidChain(calls) ==
  \/ \E k \in 1..Len(calls) :
       /\ calls[k].method \in CursorMethods
       /\ \A j \in 1..(k - 1) : calls[j].method # "orderBy"
  \/ \E j, k \in 1..Len(calls) :
       j < k /\ calls[j].method \in CursorMethods /\ calls[k].method = "orderBy"
  \/ \E k \in 1..Len(calls) : calls[k].method = "limit" /\ calls[k].value <= 0

\* the documents the where clauses keep; an orderBy keeps only documents
\* that have its field
Matching(coll, calls) ==
  { i \in DOMAIN coll :
      /\ \A k \in 1..Len(calls) :
           calls[k].method = "where" => Satisfies(coll[i], calls[k])
      /\ \A k \in 1..Len(calls) :
           calls[k].method = "orderBy" => calls[k].fieldName \in DOMAIN coll[i] }

\* document i comes before document j under the orderBy clauses from k on;
\* documents equal on every clause are listed by identifier, in the
\* direction of the last clause
RECURSIVE Before(_, _, _, _, _)
Before(coll, orderBys, k, i, j) ==
  IF k > Len(orderBys)
  THEN IF Len(orderBys) > 0 /\ orderBys[Len(orderBys)].arg = "desc"
       THEN IdRank(i) > IdRank(j)
       ELSE IdRank(i) < IdRank(j)
  ELSE LET f == orderBys[k].fieldName IN
       IF coll[i][f] = coll[j][f] THEN Before(coll, orderBys, k + 1, i, j)
       ELSE IF orderBys[k].arg = "desc" THEN coll[i][f] > coll[j][f]
                                        ELSE coll[i][f] < coll[j][f]

\* a set of documents as the sequence the orderBy clauses put them in
Ordered(coll, orderBys, ids) ==
  [n \in 1..Cardinality(ids) |->
     CHOOSE i \in ids :
       Cardinality({j \in ids : Before(coll, orderBys, 1, j, i)}) = n - 1]

\* where a document stands against a cursor value, along the first orderBy
\* clause: negative before it, zero at it, positive after it
Position(doc, orderBy, value) ==
  IF orderBy.arg = "desc" THEN value - doc[orderBy.fieldName]
                          ELSE doc[orderBy.fieldName] - value

\* a later startAt/startAfter replaces an earlier one, and so for the end
WithinCursors(doc, calls) ==
  LET orderBys == CallsOf(calls, {"orderBy"})
      starts   == CallsOf(calls, {"startAt", "startAfter"})
      ends     == CallsOf(calls, {"endAt", "endBefore"})
  IN /\ Len(starts) > 0 =>
          LET c == starts[Len(starts)] IN
            IF c.method = "startAt"
            THEN Position(doc, orderBys[1], c.value) >= 0
            ELSE Position(doc, orderBys[1], c.value) > 0
     /\ Len(ends) > 0 =>
          LET c == ends[Len(ends)] IN
            IF c.method = "endAt"
            THEN Position(doc, orderBys[1], c.value) =< 0
            ELSE Position(doc, orderBys[1], c.value) < 0

\* the first n elements of a sequence
Take(seq, n) == SubSeq(seq, 1, IF n < Len(seq) THEN n ELSE Len(seq))

\* the identifiers of the documents a query returns, in order
RunQuery(coll, query) ==
  IF query.threw \/ InvalidChain(query.calls)
  THEN [error |-> TRUE, ids |-> <<>>]
  ELSE LET calls  == query.calls
           kept   == {i \in Matching(coll, calls) : WithinCursors(coll[i], calls)}
           sorted == Ordered(coll, CallsOf(calls, {"orderBy"}), kept)
           limits == CallsOf(calls, {"limit"})
       IN [error |-> FALSE,
           ids |-> IF Len(limits) > 0
                   THEN Take(sorted, limits[Len(limits)].value)
                   ELSE sorted]

(***************************************************************************)
(* fetch and fetchSnapshots: the translated query, or the collection       *)
(* reference when the translation yields null, run by the client.          *)
(***************************************************************************)
Fetched(query, res, rows) ==
  [isNull |-> query.isNull, query |-> query.calls, ok |-> ~res.error,
   rows |-> rows]

\* FirestoreRepo.fetch: valueChanges({ idField: 'id' })
fetch(coll, options) ==
  LET query == applyOptions(options, Ref)
      res   == RunQuery(coll, OrRef(query, Ref))
  IN Fetched(query, res,
             [n \in 1..Len(res.ids) |-> WithId(coll[res.ids[n]], res.ids[n])])

\* FirestoreRepo.fetchSnapshots: snapshotChanges(events)
fetchSnapshots(coll, options) ==
  LET query == applyOptions(options, Ref)
      res   == RunQuery(coll, OrRef(query, Ref))
  IN Fetched(query, res,
             [n \in 1..Len(res.ids) |->
                [type |-> "added", id |-> res.ids[n], data |-> coll[res.ids[n]]]])

(***************************************************************************)
(* The inputs of the calls.                                                *)
(***************************************************************************)
\* entities handed to add: with and without an id property of their own
AddItems ==
  { [name |-> 1, timeStamp |-> 1],
    [name |-> 2, timeStamp |-> 1],
    [id |-> "a", name |-> 2, timeStamp |-> 2] }

\* the id argument of add: left out, empty, explicit, or one returned earlier
IdArgs(n) == {Undefined, ""} \cup ExplicitIds \cup Generated(n)

\* the id argument of delete and exists, and the id property of update
KnownIds(n) == ExplicitIds \cup Generated(n)

\* the fields of a document fragment handed to update
Fragments ==
  { [name |-> 2], [timeStamp |-> 2], [name |-> 1, timeStamp |-> 2] }

\* document fragments handed to update, with and without an id property
UpdateItems(n) ==
  Fragments \cup {WithId(f, i) : f \in Fragments, i \in KnownIds(n) \cup {""}}

\* what the database may hold when a repository is created
InitialStores ==
  { [p \in Paths |-> Empty],
    [p \in Paths |->
       IF p = "todos" THEN [i \in {"a"} |-> [name |-> 1, timeStamp |-> 1]]
                      ELSE Empty] }

(***************************************************************************)
(* The state.  store is the database; nextAuto counts the identifiers the  *)
(* client has generated; repos are the repositories the factory has made,  *)
(* each with its collection path; last is the most recent repository call  *)
(* with its arguments and its outcome.  lastWrite and nOps are history:    *)
(* per document the kind of the last successful write, and the number of   *)
(* write calls made.  request is the options object a caller has built     *)
(* for fetch and fetchSnapshots.  sub is a caller's subscription to the    *)
(* stream fetch returns.                                                   *)
(***************************************************************************)
\* no add whose document is still as it was written
NoAdd == [path |-> "", item |-> Empty, entity |-> Empty]

NoCall ==
  [op |-> "none", repo |-> 0, path |-> "", id |-> Undefined, item |-> Empty,
   fault |-> "none",
   ok |-> TRUE, error |-> "none", docId |-> Undefined, entity |-> Empty,
   found |-> FALSE, calls |-> <<>>, existed |-> FALSE, prior |-> "never",
   added |-> NoAdd,
   options |-> Empty, query |-> <<>>, isNull |-> TRUE, rows |-> <<>>]

\* history: the most recent successful add, for as long as the document it
\* wrote is unchanged
Added(op, p, item, out) ==
  IF op = "add" /\ out.ok
  THEN [path |-> p, item |-> item, entity |-> out.entity]
  ELSE IF /\ last.added # NoAdd
          /\ last.added.path = p
          /\ \/ last.added.entity["id"] \notin DOMAIN out.coll
             \/ out.coll[last.added.entity["id"]] # store[p][last.added.entity["id"]]
  THEN NoAdd
  ELSE last.added

\* the record of a one-shot call from its outcome; existed and prior are
\* history: whether the addressed document existed when the call was made,
\* and the last successful write to it before the call
Called(op, r, id, item, fault, out) ==
  [NoCall EXCEPT !.op = op, !.repo = r, !.path = repos[r], !.id = id,
                 !.item = item, !.fault = fault,
                 !.ok = out.ok, !.error = out.error, !.docId = out.docId,
                 !.entity = out.entity, !.found = out.found,
                 !.calls = out.calls,
                 !.existed = out.docId \in DOMAIN store[repos[r]],
                 !.prior = IF out.docId \in DOMAIN lastWrite[repos[r]]
                           THEN lastWrite[repos[r]][out.docId] ELSE "never",
                 !.added = Added(op, repos[r], item, out)]

\* no subscription made; snapshot is the collection as the client last
\* delivered it to the subscriber
NoSub ==
  [state |-> "none", path |-> "", options |-> Empty, pending |-> FALSE,
   delivered |-> FALSE, snapshot |-> Empty]

\* the stream of valueChanges() without the idField option: the data of
\* the documents alone
emissionWithoutId(coll, options) ==
  LET res == RunQuery(coll, OrRef(applyOptions(options, Ref), Ref))
  IN [n \in 1..Len(res.ids) |-> coll[res.ids[n]]]

\* what the stream of fetch(options) emits: the result of the query as the
\* collection is now
emission(coll, options) == fetch(coll, options).rows

\* the client's listener of the subscribed query: a write that changes the
\* result of the query makes a snapshot due
Listen(p, coll) ==
  IF /\ sub.state = "active"
     /\ sub.path = p
     /\ emission(coll, sub.options) # emission(store[p], sub.options)
  THEN [sub EXCEPT !.pending = TRUE]
  ELSE sub

\* the repositories of a program that made one for each collection path
OnePerPath == <<"todos", "notes">>

Init ==
  /\ store \in InitialStores
  /\ nextAuto = 0
  /\ lastWrite =
       [p \in Paths |->
          [i \in DocIds |-> IF i \in DOMAIN store[p] THEN "written" ELSE "never"]]
  /\ nOps = 0
  /\ request = Empty
  /\ last = NoCall
  /\ repos = OnePerPath
  /\ sub = NoSub

\* the history of a write call that addressed document i of collection p
Wrote(p, out, kind) ==
  IF out.ok THEN [lastWrite EXCEPT ![p][out.docId] = kind] ELSE lastWrite

Add(r, item, id, fault) ==
  /\ nOps < MaxOps
  /\ nextAuto < Len(AutoIdPool)
  /\ LET p   == repos[r]
         out == Await(add(store[p], item, id, AutoIdPool[nextAuto + 1]),
                      store[p], fault)
     IN /\ store' = [store EXCEPT ![p] = out.coll]
        /\ nextAuto' = IF Falsy(id) THEN nextAuto + 1 ELSE nextAuto
        /\ lastWrite' = Wrote(p, out, "written")
        /\ last' = Called("add", r, id, item, fault, out)
        /\ sub' = Listen(p, out.coll)
  /\ nOps' = nOps + 1
  /\ UNCHANGED <<request, repos>>

Delete(r, id, fault) ==
  /\ nOps < MaxOps
  /\ LET p   == repos[r]
         out == Await(delete(store[p], id), store[p], fault)
     IN /\ store' = [store EXCEPT ![p] = out.coll]
        /\ lastWrite' = Wrote(p, out, "deleted")
        /\ last' = Called("delete", r, id, Empty, fault, out)
        /\ sub' = Listen(p, out.coll)
  /\ nOps' = nOps + 1
  /\ UNCHANGED <<nextAuto, request, repos>>

Update(r, item, fault) ==
  /\ nOps < MaxOps
  /\ LET p   == repos[r]
         out == Await(update(store[p], item), store[p], fault)
     IN /\ store' = [store EXCEPT ![p] = out.coll]
        /\ lastWrite' = Wrote(p, out, "written")
        /\ last' = Called("update", r, Undefined, item, fault, out)
        /\ sub' = Listen(p, out.coll)
  /\ nOps' = nOps + 1
  /\ UNCHANGED <<nextAuto, request, repos>>

Exists(r, id, fault) ==
  /\ LET p   == repos[r]
         out == Await(exists(store[p], id), store[p], fault)
     IN /\ store' = [store EXCEPT ![p] = out.coll]
        /\ last' = Called("exists", r, id, Empty, fault, out)
  /\ UNCHANGED <<nextAuto, lastWrite, nOps, request, repos, sub>>

\* get(id), subscribed to and read once
Get(r, id) ==
  /\ \E absent \in AbsentEmissions(id) :
       last' = Called("get", r, id, Empty, "none", get(store[repos[r]], id, absent))
  /\ UNCHANGED <<store, nextAuto, lastWrite, nOps, request, repos, sub>>

\* FirestoreRepoFactory.create(path)
Create(path) ==
  /\ Len(repos) < MaxRepos
  /\ repos' = create(repos, path)
  /\ last' = [NoCall EXCEPT !.op = "create", !.repo = Len(repos) + 1,
                            !.path = path, !.added = last.added]
  /\ UNCHANGED <<store, nextAuto, lastWrite, nOps, request, sub>>

Next ==
  \/ \E r \in DOMAIN repos, item \in AddItems, id \in IdArgs(nextAuto) :
       Add(r, item, id, "none")
  \/ \E r \in DOMAIN repos, id \in KnownIds(nextAuto) \cup {""} : Delete(r, id, "none")
  \/ \E r \in DOMAIN repos, item \in UpdateItems(nextAuto) : Update(r, item, "none")
  \/ \E r \in DOMAIN repos, id \in KnownIds(nextAuto) \cup {""} : Exists(r, id, "none")
  \/ \E r \in DOMAIN repos, id \in KnownIds(nextAuto) \cup {""} : Get(r, id)

Spec == Init /\ [][Next]_vars


(***************************************************************************)
(* Claims about the one-shot operations.                                   *)
(***************************************************************************)
\* C1: add(item) without an explicit id resolves to an entity whose id is
\* non-empty, is none of the identifiers the caller had (neither an argument
\* nor the item's own id property), is the identifier the store generated
\* for a new document; the call makes exactly one write, and afterwards the
\* document at that identifier holds the item's fields.
C1_AddGeneratesId ==
  (last.op = "add" /\ last.id = Undefined) =>
    /\ last.ok
    /\ "id" \in DOMAIN last.entity
    /\ last.entity["id"] \notin {"", Undefined}
    /\ last.entity["id"] # IdOf(last.item)
    /\ last.entity["id"] \notin ExplicitIds \cup Generated(nextAuto - 1)
    /\ last.entity["id"] = AutoIdPool[nextAuto]
    /\ ~last.existed
    /\ last.calls = <<"collection.add">>
    /\ last.entity["id"] \in DOMAIN store[last.path]
    /\ store[last.path][last.entity["id"]] = last.item

\* an item that carries an id property of its own was added without an id
C1_Witness ==
  /\ last.op = "add" /\ last.id = Undefined /\ last.ok
  /\ "id" \in DOMAIN last.item
  /\ DOMAIN store[last.path] \ {last.docId} # {}

\* C2 as stated: for every explicit id string, the empty string too,
\* add(item, id) returns the item merged with exactly that id and the
\* document at that id holds the item afterwards.
C2_AnyIdString ==
  (last.op = "add" /\ last.id # Undefined) =>
    /\ last.ok
    /\ last.entity = WithId(last.item, last.id)
    /\ last.id \in DOMAIN store[last.path]
    /\ store[last.path][last.id] = last.item

\* C2: for every item and every non-empty explicit id, add(item, id)
\* returns the item's fields merged with exactly that id, and the document
\* at that id, created if absent and replaced if present, holds the item.
C2_AddExplicitId ==
  (last.op = "add" /\ ~Falsy(last.id)) =>
    /\ last.ok
    /\ last.entity = WithId(last.item, last.id)
    /\ last.id \in DOMAIN store[last.path]
    /\ store[last.path][last.id] = last.item

\* an existing document with other data was overwritten
C2_Witness ==
  /\ last.op = "add" /\ ~Falsy(last.id) /\ last.ok
  /\ last.existed
  /\ nOps = 1
  /\ store[last.path][last.id] # [name |-> 1, timeStamp |-> 1]

\* C3: exists(id) answers true exactly when the last successful write to id
\* was an add or update not followed by a delete, false for an id never
\* written or deleted; it makes one point lookup and changes no document.
C3_ExistsReportsLastWrite ==
  [][(last'.op = "exists" /\ ValidDocId(last'.id)) =>
       /\ last'.ok
       /\ last'.found <=> (lastWrite'[last'.path][last'.id] = "written")
       /\ last'.calls = <<"doc.get">>
       /\ store' = store
       /\ lastWrite' = lastWrite]_vars

\* exists answered false for a document that was written and then deleted
C3_Witness ==
  /\ last.op = "exists" /\ last.ok /\ ~last.found
  /\ lastWrite[last.path][last.id] = "deleted"
  /\ nOps = 2
  /\ DOMAIN store[last.path] # {}

\* C4: update(partialItem) on an existing document changes only the fields
\* of partialItem: the document afterwards has the fields of both, those of
\* partialItem with their new values and all others with their old ones.
C4_UpdateMerges ==
  [][(last'.op = "update" /\ last'.ok) =>
       LET p    == last'.path
           item == last'.item
           id   == IdOf(item)
       IN /\ id \in DOMAIN store[p]
          /\ id \in DOMAIN store'[p]
          /\ DOMAIN store'[p][id] = DOMAIN store[p][id] \cup DOMAIN item
          /\ \A f \in DOMAIN store'[p][id] :
               store'[p][id][f] = IF f \in DOMAIN item THEN item[f]
                                                      ELSE store[p][id][f]]_vars

\* an update left a field of the document alone and changed another
C4_Witness ==
  /\ last.op = "update" /\ last.ok
  /\ DOMAIN store[last.path][IdOf(last.item)] \ DOMAIN last.item # {}
  /\ store[last.path][IdOf(last.item)]["timeStamp"] = 2
  /\ "timeStamp" \in DOMAIN last.item

\* C5: update(partialItem) fails when partialItem has no identifier or its
\* identifier names no existing document, and then no document of the
\* collection is created or modified.
C5_UpdateFailsWithoutDocument ==
  [][(/\ last'.op = "update"
      /\ \/ ~ValidDocId(IdOf(last'.item))
         \/ IdOf(last'.item) \notin DOMAIN store[last'.path]) =>
       /\ ~last'.ok
       /\ store' = store]_vars

\* an update without an identifier failed on a collection that has documents
C5_Witness ==
  /\ last.op = "update" /\ ~last.ok
  /\ IdOf(last.item) = Undefined
  /\ DOMAIN store[last.path] # {}

\* C6: delete(id) removes the document at id and no other, and completes
\* without error and without effect when there is no document at id: a
\* second delete leaves the store as the first one left it.
C6_DeleteIdempotent ==
  [][(last'.op = "delete" /\ ValidDocId(last'.id)) =>
       LET p == last'.path IN
         /\ last'.ok
         /\ last'.id \notin DOMAIN store'[p]
         /\ DOMAIN store'[p] = DOMAIN store[p] \ {last'.id}
         /\ \A i \in DOMAIN store'[p] : store'[p][i] = store[p][i]
         /\ \A q \in Paths \ {p} : store'[q] = store[q]
         /\ last'.id \notin DOMAIN store[p] => store' = store]_vars

\* a document that had been deleted was deleted a second time
C6_Witness ==
  /\ last.op = "delete" /\ last.ok
  /\ last.prior = "deleted" /\ ~last.existed
  /\ nOps = 2

FilterSpecs ==
  { [fieldName |-> f, operator |-> o, value |-> v] :
      f \in QueryFields, o \in FilterOperators, v \in FieldValues }

SortSpecs ==
  { [fieldName |-> f, direction |-> d] : f \in QueryFields, d \in Directions }

\* the arrays over a set of at most n elements
ArraysUpTo(S, n) == UNION {[1..k -> S] : k \in 0..n}

\* one optional property
Prop(key, value) == [x \in {key} |-> value]

\* every combination of present and absent cursors
CursorOptions == UNION {[K -> FieldValues] : K \in SUBSET CursorMethods}

\* a few of them
SomeCursors ==
  { Empty, Prop("startAt", 2), Prop("endBefore", 2),
    Merge(Prop("startAfter", 1), Prop("endAt", 2)) }

\* limit: absent, zero, positive, negative
LimitOptions == {Empty} \cup {Prop("limit", n) : n \in {-1, 0, 1, 2}}

\* no filters, no sorts, no limit: absent, empty or zero, with any cursors
PlainOptions ==
  { Merge(b, c) :
      b \in { Empty, Prop("filters", <<>>), Prop("sorts", <<>>), Prop("limit", 0),
              Merge(Prop("filters", <<>>), Merge(Prop("sorts", <<>>), Prop("limit", 0))) },
      c \in CursorOptions }

\* filters only, and one filter with cursors but no sort
FilterOptions ==
  {Prop("filters", fs) : fs \in ArraysUpTo(FilterSpecs, MaxFilters)}
    \cup { Merge(Prop("filters", <<f>>), c) : f \in FilterSpecs, c \in SomeCursors }

\* one sort or none with any cursors, longer sort arrays with a few
SortOptions ==
  { Merge(Prop("sorts", ss), c) :
      ss \in ArraysUpTo(SortSpecs, 1), c \in CursorOptions }
    \cup { Merge(Prop("sorts", ss), c) :
             ss \in ArraysUpTo(SortSpecs, MaxSorts), c \in SomeCursors }

\* a filter, a sort, cursors and a limit together
MixedOptions ==
  { Merge(Merge(f, s), Merge(c, l)) :
      f \in {Empty} \cup {Prop("filters", <<w>>) :
                            w \in {x \in FilterSpecs : x.operator \in {"==", ">="}
                                                       /\ x.value = 2}},
      s \in {Empty} \cup {Prop("sorts", <<o>>) : o \in SortSpecs},
      c \in SomeCursors,
      l \in LimitOptions }

Requests == PlainOptions \cup FilterOptions \cup SortOptions \cup MixedOptions

\* two sets of four entities
EntitiesA ==
  [i \in {"a", "b", "c", "d"} |->
     CASE i = "a" -> [name |-> 1, timeStamp |-> 2]
       [] i = "b" -> [name |-> 2, timeStamp |-> 1]
       [] i = "c" -> [name |-> 1, timeStamp |-> 1]
       [] OTHER   -> [name |-> 2, timeStamp |-> 2]]

EntitiesB ==
  [i \in {"a", "b", "c", "d"} |->
     CASE i = "a" -> [name |-> 2, timeStamp |-> 2]
       [] i = "b" -> [name |-> 1]
       [] i = "c" -> [name |-> 2, timeStamp |-> 1]
       [] OTHER   -> [id |-> "d", name |-> 1, timeStamp |-> 2]]

\* four entities with four different time stamps
EntitiesC ==
  [i \in {"a", "b", "c", "d"} |->
     CASE i = "a" -> [name |-> 1, timeStamp |-> 1]
       [] i = "b" -> [name |-> 1, timeStamp |-> 2]
       [] i = "c" -> [name |-> 2, timeStamp |-> 3]
       [] OTHER   -> [name |-> 2, timeStamp |-> 4]]

Restrict(f, S) == [x \in S |-> f[x]]

\* the collections the queries run against
Collections ==
  { Restrict(EntitiesA, S) :
      S \in {{}, {"b"}, {"a", "c"}, {"a", "b", "d"}, {"b", "c", "d"},
              {"a", "b", "c", "d"}} }
    \cup {EntitiesC}
    \cup { Restrict(EntitiesB, S) :
             S \in {{"a", "b"}, {"b", "c", "d"}, {"a", "b", "c", "d"}} }

\* the collection path the queries go to
QueryPath == "todos"

QueryInit ==
  /\ store \in {[p \in Paths |-> IF p = QueryPath THEN c ELSE Empty] : c \in Collections}
  /\ nextAuto = 0
  /\ lastWrite =
       [p \in Paths |->
          [i \in DOMAIN EntitiesA \cup DocIds |->
             IF i \in DOMAIN store[p] THEN "written" ELSE "never"]]
  /\ nOps = 0
  /\ request \in Requests
  /\ last = NoCall
  /\ repos = OnePerPath
  /\ sub = NoSub

\* the record of a fetch or fetchSnapshots call
Queried(op, p, options, res) ==
  [NoCall EXCEPT !.op = op, !.path = p, !.options = options, !.ok = res.ok,
                 !.isNull = res.isNull, !.query = res.query, !.rows = res.rows]

\* one call is made with the options object
Fetch(p) ==
  /\ last.op \notin {"fetch", "fetchSnapshots"}
  /\ last' = Queried("fetch", p, request, fetch(store[p], request))
  /\ UNCHANGED <<store, nextAuto, lastWrite, nOps, request, repos, sub>>

FetchSnapshots(p) ==
  /\ last.op \notin {"fetch", "fetchSnapshots"}
  /\ last' = Queried("fetchSnapshots", p, request, fetchSnapshots(store[p], request))
  /\ UNCHANGED <<store, nextAuto, lastWrite, nOps, request, repos, sub>>

QueryNext ==
  \/ Fetch(QueryPath)
  \/ FetchSnapshots(QueryPath)

QuerySpec == QueryInit /\ [][QueryNext]_vars


(***************************************************************************)
(* Claims about the query translation.                                     *)
(***************************************************************************)
\* the calls that run the translation
QueryOps == {"fetch", "fetchSnapshots"}

\* the options carry no sort specification: sorts is absent or empty
NoSorts(options) == "sorts" \notin DOMAIN options \/ options["sorts"] = <<>>

\* the cursors the options carry
CursorsIn(options) == DOMAIN options \cap CursorMethods

\* the same options without their cursors
WithoutCursors(options) == Restrict(options, DOMAIN options \ CursorMethods)

\* the call of last made again with other options
Again(options) ==
  IF last.op = "fetch" THEN fetch(store[last.path], options)
                       ELSE fetchSnapshots(store[last.path], options)

\* the elements of a sequence
Range(seq) == {seq[n] : n \in 1..Len(seq)}

\* C7: the translation attaches a cursor only when the options contain at
\* least one sort specification; with sorts absent or empty, any combination
\* of cursors raises no error and the result is the one the same options
\* give without the cursors.
C7_CursorsNeedSort ==
  last.op \in QueryOps =>
    /\ (\E k \in 1..Len(last.query) : last.query[k].method \in CursorMethods)
         => ~NoSorts(last.options)
    /\ NoSorts(last.options) =>
         LET plain == Again(WithoutCursors(last.options)) IN
           /\ last.query = plain.query
           /\ last.isNull = plain.isNull
           /\ last.ok = plain.ok
           /\ last.rows = plain.rows
           /\ ("limit" \in DOMAIN last.options => last.options["limit"] >= 0)
                => last.ok

\* cursors were supplied with a filter and without a sort, and documents came back
C7_Witness ==
  /\ last.op = "fetch" /\ NoSorts(last.options)
  /\ Cardinality(CursorsIn(last.options)) >= 2
  /\ "filters" \in DOMAIN last.options /\ Len(last.options["filters"]) = 1
  /\ Len(last.rows) >= 2

\* the options carry no filters, no sorts and no limit
NoClauses(options) ==
  /\ "filters" \notin DOMAIN options \/ options["filters"] = <<>>
  /\ NoSorts(options)
  /\ "limit" \notin DOMAIN options \/ options["limit"] = 0

\* C8: with no filters, no sorts and no limit the translation yields null,
\* no builder call is made on the collection reference, and fetch returns
\* every document of the collection with its identifier.
C8_NoOptionsScansCollection ==
  (last.op = "fetch" /\ NoClauses(last.options)) =>
    /\ last.isNull
    /\ last.query = <<>>
    /\ last.ok
    /\ Len(last.rows) = Cardinality(DOMAIN store[last.path])
    /\ Range(last.rows) =
         {WithId(store[last.path][i], i) : i \in DOMAIN store[last.path]}

\* fetch() without an argument returned a collection of four documents
C8_Witness ==
  /\ last.op = "fetch" /\ last.options = Empty
  /\ Len(last.rows) = 4

\* a document meets a filter specification
Meets(doc, f) ==
  /\ f.fieldName \in DOMAIN doc
  /\ LET x == doc[f.fieldName] IN
       \/ f.operator = "==" /\ x = f.value
       \/ f.operator = "!=" /\ x # f.value
       \/ f.operator \in {"<", "<="} /\ x < f.value
       \/ f.operator \in {">", ">="} /\ x > f.value
       \/ f.operator \in {"<=", ">="} /\ x = f.value

\* an array rearranged by a permutation of its indices
Permuted(seq, pi) == [k \in 1..Len(seq) |-> seq[pi[k]]]

Differing(sorts, x, y) ==
  {k \in 1..Len(sorts) : x[sorts[k].fieldName] # y[sorts[k].fieldName]}

\* entity x may stand before entity y: on the first sort specification that
\* tells them apart, x comes first in that specification's direction
InSortOrder(sorts, x, y) ==
  Differing(sorts, x, y) # {} =>
    LET k == CHOOSE m \in Differing(sorts, x, y) :
               \A n \in Differing(sorts, x, y) : m <= n
        f == sorts[k].fieldName
    IN IF sorts[k].direction = "asc" THEN x[f] < y[f] ELSE x[f] > y[f]

\* C10: with a non-empty sorts array and no cursor, the documents fetch
\* emits are ordered by the sort specifications from left to right, each
\* later one breaking the ties of the earlier ones, each in its direction.
C10_SortsLeftToRight ==
  (/\ last.op = "fetch"
   /\ ~NoSorts(last.options)
   /\ CursorsIn(last.options) = {}) =>
    LET sorts == last.options["sorts"] IN
      /\ \A n \in 1..Len(last.rows), k \in 1..Len(sorts) :
           sorts[k].fieldName \in DOMAIN last.rows[n]
      /\ \A n, m \in 1..Len(last.rows) :
           n < m => InSortOrder(sorts, last.rows[n], last.rows[m])

\* two sort specifications on different fields, the second one deciding
\* between two documents that are equal on the first
C10_Witness ==
  /\ last.op = "fetch" /\ ~NoSorts(last.options) /\ CursorsIn(last.options) = {}
  /\ Len(last.options["sorts"]) = 2
  /\ last.options["sorts"][1].direction = "desc"
  /\ last.options["sorts"][2].direction = "asc"
  /\ Len(last.rows) = 4
  /\ \E n \in 1..3 :
       LET f == last.options["sorts"][1].fieldName
           g == last.options["sorts"][2].fieldName
       IN /\ last.rows[n][f] = last.rows[n + 1][f]
          /\ last.rows[n][g] < last.rows[n + 1][g]


\* the same options without their limit
WithoutLimit(options) == Restrict(options, DOMAIN options \ {"limit"})

\* the limit calls of the translated query
LimitCalls == {k \in 1..Len(last.query) : last.query[k].method = "limit"}

\* C11 as stated: a limit clause is attached if and only if the options
\* carry a positive limit.
C11_LimitIffPositive ==
  last.op \in QueryOps =>
    (LimitCalls # {} <=>
       ("limit" \in DOMAIN last.options /\ last.options["limit"] > 0))

\* C11: a limit clause is attached if and only if the options carry a limit
\* other than 0; it is attached once and last, on the query of the filters,
\* sorts and cursors; with a positive limit fetch returns the first limit
\* documents of what the same options without the limit return.
C11_LimitLast ==
  last.op \in QueryOps =>
    LET plain == Again(WithoutLimit(last.options)) IN
      /\ LimitCalls # {} <=>
           ("limit" \in DOMAIN last.options /\ last.options["limit"] # 0)
      /\ LimitCalls = {} => last.query = plain.query
      /\ LimitCalls # {} =>
           /\ LimitCalls = {Len(last.query)}
           /\ last.query =
                Append(plain.query, BuilderCall("limit", "", "", last.options["limit"]))
           /\ ~last.isNull
           /\ last.options["limit"] > 0 =>
                /\ last.ok = plain.ok
                /\ Len(last.rows) <= last.options["limit"]
                /\ last.rows = Take(plain.rows, last.options["limit"])

\* a limit cut the result of a filter, a sort and a cursor
C11_Witness ==
  /\ last.op = "fetch" /\ last.ok
  /\ {"filters", "sorts", "limit"} \subseteq DOMAIN last.options
  /\ CursorsIn(last.options) # {}
  /\ last.options["limit"] = 1
  /\ Len(last.rows) = 1
  /\ Len(fetch(store[last.path], WithoutLimit(last.options)).rows) >= 2

\* value x stands after the cursor value v in the direction of the sort
After(x, v, direction) == IF direction = "asc" THEN x > v ELSE x < v

\* value x is inside the bound that cursor c sets at v
Bounded(x, v, direction, c) ==
  CASE c = "startAt"    -> x = v \/ After(x, v, direction)
    [] c = "startAfter" -> After(x, v, direction)
    [] c = "endAt"      -> x = v \/ ~After(x, v, direction)
    [] c = "endBefore"  -> x # v /\ ~After(x, v, direction)

\* C12: with a single sort on a field and cursors, at most one for the start
\* and one for the end, fetch returns exactly the documents with that field
\* that every cursor admits: startAt v those at or after v in the sort
\* order, startAfter v those after v, endAt v those at or before v,
\* endBefore v those before v.
C12_CursorsBound ==
  (/\ last.op = "fetch"
   /\ DOMAIN last.options \subseteq {"sorts"} \cup CursorMethods
   /\ ~NoSorts(last.options) /\ Len(last.options["sorts"]) = 1
   /\ CursorsIn(last.options) # {}
   /\ ~({"startAt", "startAfter"} \subseteq DOMAIN last.options)
   /\ ~({"endAt", "endBefore"} \subseteq DOMAIN last.options)) =>
    LET sort == last.options["sorts"][1]
        f    == sort.fieldName
        coll == store[last.path]
    IN /\ last.ok
       /\ Len(last.rows) = Cardinality(Range(last.rows))
       /\ Range(last.rows) =
            { WithId(coll[i], i) :
                i \in { j \in DOMAIN coll :
                          /\ f \in DOMAIN coll[j]
                          /\ \A c \in CursorsIn(last.options) :
                               Bounded(coll[j][f], last.options[c], sort.direction, c) } }

\* time stamps 1 to 4 sorted ascending with startAfter 1: the three
\* documents with the time stamps 2, 3 and 4
C12_Witness ==
  /\ last.op = "fetch"
  /\ last.options =
       Merge(Prop("sorts", <<[fieldName |-> "timeStamp", direction |-> "asc"]>>),
             Prop("startAfter", 1))
  /\ store[last.path] = EntitiesC
  /\ Len(last.rows) = 3
  /\ \A n \in 1..3 : last.rows[n]["timeStamp"] = n + 1

\* the cursors of the options in the order startAt, startAfter, endAt, endBefore
CursorSequence(options) ==
  SelectSeq(<<"startAt", "startAfter", "endAt", "endBefore">>,
            LAMBDA c : c \in DOMAIN options)

\* the builder calls in the order the claim gives them
ExpectedCalls(options) ==
  LET fs == IF "filters" \in DOMAIN options THEN options["filters"] ELSE <<>>
      ss == IF "sorts" \in DOMAIN options THEN options["sorts"] ELSE <<>>
      cs == IF ss = <<>> THEN <<>> ELSE CursorSequence(options)
  IN [k \in 1..Len(fs) |->
        BuilderCall("where", fs[k].fieldName, fs[k].operator, fs[k].value)]
     \o [k \in 1..Len(ss) |-> BuilderCall("orderBy", ss[k].fieldName, ss[k].direction, 0)]
     \o [k \in 1..Len(cs) |-> BuilderCall(cs[k], "", "", options[cs[k]])]
     \o (IF "limit" \in DOMAIN options /\ options["limit"] # 0
         THEN <<BuilderCall("limit", "", "", options["limit"])>> ELSE <<>>)

\* C16: the translation makes its builder calls in one order: a where per
\* filter in array order, an orderBy per sort in array order, then, only if
\* there is a sort, the cursors that are present as startAt, startAfter,
\* endAt, endBefore, then the limit; the chain starts on the collection
\* reference, and no call is made when there is nothing to translate.
C16_CallOrder ==
  last.op \in QueryOps =>
    /\ last.query = ExpectedCalls(last.options)
    /\ last.isNull <=> (ExpectedCalls(last.options) = <<>>)

\* a filter, a sort, two cursors and a limit were translated
C16_Witness ==
  /\ last.op = "fetch"
  /\ Len(last.query) = 5
  /\ last.query[1].method = "where"
  /\ last.query[2].method = "orderBy"
  /\ last.query[3].method = "startAfter"
  /\ last.query[4].method = "endAt"
  /\ last.query[5].method = "limit"

(***************************************************************************)
(* The factory: a program that makes its repositories as it goes and calls *)
(* the operations through them.                                            *)
(***************************************************************************)
\* the entity the repositories add
FactoryItem == [name |-> 1, timeStamp |-> 1]

\* the fragments the repositories update with
FactoryUpdates(n) == {WithId([name |-> 2], i) : i \in KnownIds(n)}

FactoryInit ==
  /\ store \in InitialStores
  /\ nextAuto = 0
  /\ lastWrite =
       [p \in Paths |->
          [i \in DocIds |-> IF i \in DOMAIN store[p] THEN "written" ELSE "never"]]
  /\ nOps = 0
  /\ request = Empty
  /\ last = NoCall
  /\ repos = <<>>
  /\ sub = NoSub

FactoryNext ==
  \/ \E path \in Paths : Create(path)
  \/ \E r \in DOMAIN repos, id \in {Undefined} \cup ExplicitIds :
       Add(r, FactoryItem, id, "none")
  \/ \E r \in DOMAIN repos, id \in KnownIds(nextAuto) : Delete(r, id, "none")
  \/ \E r \in DOMAIN repos, item \in FactoryUpdates(nextAuto) : Update(r, item, "none")
  \/ \E r \in DOMAIN repos, id \in KnownIds(nextAuto) : Exists(r, id, "none")
  \/ \E r \in DOMAIN repos, id \in KnownIds(nextAuto) : Get(r, id)
  \/ \E r \in DOMAIN repos : Fetch(repos[r])

FactorySpec == FactoryInit /\ [][FactoryNext]_vars

\* the operations that write
WriteOps == {"add", "update", "delete"}

\* document i of collection p is after the step as it was before
SameDocument(p, i) ==
  /\ i \in DOMAIN store'[p] <=> i \in DOMAIN store[p]
  /\ i \in DOMAIN store[p] => store'[p][i] = store[p][i]

\* C15: create(path) adds one new repository, bound to that path, and
\* leaves the repositories made before and all documents as they are; the
\* repositories work on one shared database; a step that changes a document
\* is an add, update or delete, and it changes only the document with the
\* call's identifier in the collection of the repository it was called
\* through; exists, get and fetch change no document.
C15_RepositoriesIndependent ==
  [][/\ repos' # repos =>
          /\ last'.op = "create"
          /\ Len(repos') = Len(repos) + 1
          /\ \A r \in DOMAIN repos : repos'[r] = repos[r]
          /\ repos'[Len(repos')] = last'.path
          /\ last'.repo = Len(repos')
          /\ store' = store
     /\ store' # store =>
          /\ last'.op \in WriteOps
          /\ repos' = repos
          /\ last'.repo \in DOMAIN repos
          /\ \A p \in Paths, i \in DocIds :
               (p # repos[last'.repo] \/ i # last'.docId) => SameDocument(p, i)
     /\ (last' # last /\ last'.op \in {"exists", "get", "fetch"}) => store' = store
     /\ (last'.op = "exists" /\ last'.ok) =>
          (last'.found <=> last'.id \in DOMAIN store[repos[last'.repo]])]_vars

\* two repositories of one path: the second deleted a document that was
\* written through the first, next to a document that stays
C15_Witness ==
  /\ Len(repos) = 2 /\ repos[1] = repos[2]
  /\ last.op = "delete" /\ last.repo = 2 /\ last.ok
  /\ last.existed /\ last.prior = "written"
  /\ last.docId \in AutoIds
  /\ nOps = 2
  /\ DOMAIN store[last.path] # {}

(***************************************************************************)
(* The live stream: a caller subscribes to fetch(options), the client      *)
(* delivers the result and delivers it again when a write changes it,      *)
(* until the caller unsubscribes.                                          *)
(***************************************************************************)
\* fetch(options).subscribe(...): the client starts to listen; a query the
\* client rejects ends the stream with that error
Subscribe(r, options) ==
  /\ sub.state = "none"
  /\ LET res == fetch(store[repos[r]], options) IN
       sub' = [NoSub EXCEPT !.state = IF res.ok THEN "active" ELSE "errored",
                            !.path = repos[r], !.options = options,
                            !.pending = res.ok]
  /\ UNCHANGED <<store, nextAuto, lastWrite, nOps, request, last, repos>>

\* the client delivers a snapshot that is due to the subscriber
Emit ==
  /\ sub.state = "active"
  /\ sub.pending
  /\ sub' = [sub EXCEPT !.pending = FALSE, !.delivered = TRUE,
                        !.snapshot = store[sub.path]]
  /\ UNCHANGED <<store, nextAuto, lastWrite, nOps, request, last, repos>>

\* the array the subscriber received last
Emitted == emission(sub.snapshot, sub.options)

\* subscription.unsubscribe()
Unsubscribe ==
  /\ sub.state = "active"
  /\ sub' = [sub EXCEPT !.state = "closed", !.pending = FALSE]
  /\ UNCHANGED <<store, nextAuto, lastWrite, nOps, request, last, repos>>

\* the options the caller subscribes with: none, a filter, a sort with a
\* limit, and a limit the client rejects
LiveOptions ==
  { Empty,
    Prop("filters", <<[fieldName |-> "name", operator |-> "==", value |-> 2]>>),
    Merge(Prop("sorts", <<[fieldName |-> "timeStamp", direction |-> "desc"]>>),
          Prop("limit", 1)),
    Prop("limit", -1) }

\* the entities added while the subscription runs
LiveItems == { [name |-> 1, timeStamp |-> 1], [name |-> 2, timeStamp |-> 2] }

LiveNext ==
  \/ \E r \in DOMAIN repos, options \in LiveOptions : Subscribe(r, options)
  \/ Emit
  \/ Unsubscribe
  \/ \E r \in DOMAIN repos, item \in LiveItems, id \in {Undefined} \cup ExplicitIds :
       Add(r, item, id, "none")
  \/ \E r \in DOMAIN repos, id \in KnownIds(nextAuto) : Delete(r, id, "none")
  \/ \E r \in DOMAIN repos, item \in FactoryUpdates(nextAuto) : Update(r, item, "none")

\* the client delivers every snapshot that is due
LiveSpec == Init /\ [][LiveNext]_vars /\ WF_vars(Emit)

\* the step delivers an emission to the subscriber
Emits == sub.pending /\ ~sub'.pending /\ sub'.state = "active"

\* the step changes the subscribed collection
CollectionChanges == sub.state = "active" /\ store'[sub.path] # store[sub.path]

\* the step changes what the subscribed query matches
ResultChanges ==
  /\ sub.state = "active"
  /\ fetch(store'[sub.path], sub.options).rows # fetch(store[sub.path], sub.options).rows

\* an emission is the whole current result: the documents that meet the
\* filters, the first of them with a limit, each with its fields and its id
EmissionFull ==
  Emits =>
    LET coll     == store'[sub.path]
        options  == sub.options
        filters  == IF "filters" \in DOMAIN options THEN options["filters"] ELSE <<>>
        matching == {i \in DOMAIN coll :
                       \A k \in 1..Len(filters) : Meets(coll[i], filters[k])}
        rows     == emission(sub'.snapshot, sub'.options)
    IN /\ sub.state = "active"
       /\ sub'.delivered
       /\ rows = fetch(coll, options).rows
       /\ Len(rows) = Cardinality(Range(rows))
       /\ \A n \in 1..Len(rows) :
            /\ "id" \in DOMAIN rows[n]
            /\ rows[n]["id"] \in matching
            /\ rows[n] = WithId(coll[rows[n]["id"]], rows[n]["id"])
       /\ "limit" \notin DOMAIN options => Len(rows) = Cardinality(matching)
       /\ "limit" \in DOMAIN options =>
            Len(rows) = IF Cardinality(matching) < options["limit"]
                        THEN Cardinality(matching) ELSE options["limit"]

\* the stream ends by the caller's unsubscribe alone, and nothing is
\* delivered after it
EndsByUnsubscribe ==
  /\ sub.state = "closed" => sub' = sub
  /\ (sub.state = "active" /\ sub'.state # "active") =>
       /\ sub'.state = "closed"
       /\ UNCHANGED <<store, last, nOps>>
  /\ sub'.snapshot # sub.snapshot => Emits

ClientBehaviours == Faults \cup {"none"}

FaultNext ==
  \/ \E r \in DOMAIN repos, id \in {Undefined} \cup ExplicitIds,
        fault \in ClientBehaviours : Add(r, FactoryItem, id, fault)
  \/ \E r \in DOMAIN repos, id \in KnownIds(nextAuto) \cup {""},
        fault \in ClientBehaviours : Delete(r, id, fault)
  \/ \E r \in DOMAIN repos, item \in FactoryUpdates(nextAuto) \cup {[name |-> 2]},
        fault \in ClientBehaviours : Update(r, item, fault)
  \/ \E r \in DOMAIN repos, id \in KnownIds(nextAuto),
        fault \in ClientBehaviours : Exists(r, id, fault)

FaultSpec == Init /\ [][FaultNext]_vars

\* the one-shot operations
OneShotOps == {"add", "update", "delete", "exists"}

\* C14: when the client rejects the call of a one-shot operation (add,
\* update, delete, exists), the operation fails with the client's error as
\* it is, after one client call and no second one, and a failed add returns
\* no entity; this holds of the errors the client raises by itself too
\* (update of a missing document).
C14_ClientErrorPropagates ==
  last.op \in OneShotOps =>
    /\ (last.fault # "none" /\ last.calls # <<>>) =>
         /\ ~last.ok
         /\ last.error = last.fault
         /\ Len(last.calls) = 1
    /\ ~last.ok =>
         /\ last.error # "none"
         /\ Len(last.calls) <= 1
         /\ last.entity = Empty
         /\ ~last.found
    /\ (last.op = "update" /\ last.fault = "none" /\ ValidDocId(IdOf(last.item))
          /\ ~last.existed) =>
         ~last.ok /\ last.error = "not-found" /\ last.calls = <<"doc.update">>

\* the client rejected the write of an add that followed a successful write
C14_Witness ==
  /\ last.op = "add" /\ ~last.ok
  /\ last.fault = "permission-denied"
  /\ last.error = "permission-denied"
  /\ last.calls = <<"collection.add">>
  /\ nOps = 2
  /\ DOMAIN store[last.path] # {}

====
